---- MODULE Spec2Model ----
(***************************************************************************)
(* Model of bept/analysis/opt_files/surface_pdb_sasa.py: get_surface_resi  *)
(* run against a small file system.  One call is a chain of steps, one per *)
(* statement group of the try block; an exception raised by a step moves   *)
(* control to the except clause.  The environment (input CSV, the place    *)
(* where the file system or the structure parser fails) is fixed when the  *)
(* system starts, so that repeated calls see identical conditions.         *)
(***************************************************************************)
EXTENDS Integers, Sequences, FiniteSets, TLC

\* ---- bounds of the model ----
MaxRows == 3
MaxCalls == 2

\* ---- alphabets the input CSV is drawn from ----
Names == {"ALA", "GLY"}
Keys == {"12", "13"}
PotTexts == {<<"1">>, <<"-", "2">>, <<"x">>}
AllCols == {"Resi", "Resi_Seq", "Potential"}
Headers == {AllCols, AllCols \ {"Potential"}}
Faults == {"none", "makedirs", "open_input", "open_csv", "open_txt", "calc_sasa"}

\* ---- paths built by os.path.join for protein_file "1abc", output_dir "out" ----
output_tabulated_file == "out/1abc_surface_data.txt"

VARIABLES
    input,            \* the CSV at protein_bept_csvpath: [hdr, rows]
    fault,            \* the step at which the environment raises, or "none"
    cacheDir,         \* does <output_dir>/.bept exist
    csvFile,          \* <output_dir>/.bept/<protein_file>_surface_data.csv
    txtFile,          \* <output_dir>/<protein_file>_surface_data.txt
    pc,               \* position inside get_surface_resi, "idle" outside
    i,                \* index of the next row the DictReader yields
    resi_potentials,  \* insertion-ordered mapping: sequence of <<key, sum>>
    resi_names,       \* mapping key -> name
    destination_surface_resi_path,
    err_surface_calc,
    ret,              \* the pair returned by the last completed call
    calls,            \* number of calls started
    sasaCalls,        \* invocations of calc_sasa during the current call
    raisedAt,         \* step whose exception the current call caught, or "none"
    steps,            \* steps the current call completed, in order
    atCall,           \* the output files as they were when the call started
    hist              \* per completed call: result and files left behind

vars == <<input, fault, cacheDir, csvFile, txtFile, pc, i, resi_potentials,
          resi_names, destination_surface_resi_path, err_surface_calc, ret,
          calls, sasaCalls, raisedAt, steps, atCall, hist>>

\* ---- float(): lexical conversion of a Potential field ----
DigitChars == <<"0", "1", "2", "3", "4", "5", "6", "7", "8", "9">>

IsDigit(c) == \E d \in 1..Len(DigitChars) : DigitChars[d] = c

DigitVal(c) == (CHOOSE d \in 1..Len(DigitChars) : DigitChars[d] = c) - 1

RECURSIVE NatVal(_)
NatVal(s) ==
    IF s = <<>> THEN 0
    ELSE 10 * NatVal(SubSeq(s, 1, Len(s) - 1)) + DigitVal(s[Len(s)])

\* position of the decimal point, or Len(s)+1 when there is none
DotPos(s) ==
    IF \E k \in 1..Len(s) : s[k] = "."
    THEN CHOOSE k \in 1..Len(s) : s[k] = "." /\ \A j \in 1..(k - 1) : s[j] # "."
    ELSE Len(s) + 1

Unsigned(s) == IF s # <<>> /\ s[1] \in {"-", "+"} THEN Tail(s) ELSE s

\* texts float() accepts, restricted to those denoting an integer value:
\* optional sign, at least one digit, optionally "." followed by zeros
FloatOk(s) ==
    LET u == Unsigned(s)
        p == DotPos(u)
    IN  /\ p > 1
        /\ \A k \in 1..(p - 1) : IsDigit(u[k])
        /\ \A k \in (p + 1)..Len(u) : u[k] = "0"

float(s) ==
    LET u == Unsigned(s)
        n == NatVal(SubSeq(u, 1, DotPos(u) - 1))
    IN  IF s # <<>> /\ s[1] = "-" THEN 0 - n ELSE n

\* ---- number formatting of the two writers ----
RECURSIVE NatText(_)
NatText(n) ==
    IF n < 10 THEN <<DigitChars[n + 1]>>
    ELSE NatText(n \div 10) \o <<DigitChars[(n % 10) + 1]>>

\* csv.writer writes a float with repr(): 4.0 -> "4.0"
FloatRepr(x) ==
    (IF x < 0 THEN <<"-">> ELSE <<>>) \o NatText(IF x < 0 THEN 0 - x ELSE x)
        \o <<".", "0">>

\* tabulate formats a float column with "g": 4.0 -> "4"
FloatG(x) ==
    (IF x < 0 THEN <<"-">> ELSE <<>>) \o NatText(IF x < 0 THEN 0 - x ELSE x)

\* ---- the aggregation mapping ----
\* variant: the mapping never finds a key it holds
HasKey_never(m, k) == FALSE

HasKey(m, k) == \E j \in 1..Len(m) : m[j][1] = k

\* variant: the potential is assigned instead of added
AddPotential_assign(m, k, v) ==
    IF \E j \in 1..Len(m) : m[j][1] = k
    THEN [j \in 1..Len(m) |-> IF m[j][1] = k THEN <<k, v>> ELSE m[j]]
    ELSE Append(m, <<k, 0 + v>>)

\* variant: an updated key moves to the end of the mapping
AddPotential_moveToEnd(m, k, v) ==
    IF \E j \in 1..Len(m) : m[j][1] = k
    THEN LET Other(e) == e[1] # k
             old == CHOOSE j \in 1..Len(m) : m[j][1] = k
         IN  Append(SelectSeq(m, Other), <<k, m[old][2] + v>>)
    ELSE Append(m, <<k, 0 + v>>)

\* resi_potentials[resi_seq] += potential on a defaultdict(float)
AddPotential(m, k, v) ==
    IF HasKey(m, k)
    THEN [j \in 1..Len(m) |-> IF m[j][1] = k THEN <<k, m[j][2] + v>> ELSE m[j]]
    ELSE Append(m, <<k, 0 + v>>)

\* variant: the first name recorded for a key is kept
SetName_first(names, k, n) == names @@ (k :> n)

\* resi_names[resi_seq] = row["Resi"]
SetName(names, k, n) == (k :> n) @@ names

EmptyNames == [k \in {} |-> "ALA"]

\* does the loop body raise on this row (KeyError or ValueError)
RowRaises(row) ==
    \/ "Resi_Seq" \notin DOMAIN row
    \/ "Potential" \notin DOMAIN row
    \/ ~FloatOk(row.Potential)
    \/ "Resi" \notin DOMAIN row

\* ---- the two output files ----
NoFile == [exists |-> FALSE, header |-> <<>>, rows |-> <<>>]

CsvContent(m, names) ==
    [exists |-> TRUE,
     header |-> <<"Resi", "Resi_Seq", "Resi_Potential">>,
     rows |-> [j \in 1..Len(m) |-> <<names[m[j][1]], m[j][1], FloatRepr(m[j][2])>>]]

\* table_data, then tabulate(headers="keys", tablefmt="plain"); an empty
\* table_data gives an empty string, without a header line
TabulatedContent(m, names) ==
    [exists |-> TRUE,
     header |-> IF m = <<>> THEN <<>> ELSE <<"Resi", "Resi_Seq", "Resi_Potential">>,
     rows |-> [j \in 1..Len(m) |-> <<names[m[j][1]], m[j][1], FloatG(m[j][2])>>]]

\* ---- inputs ----
\* rows as csv.DictReader yields them: one field per column of the header
RowsOf(h) ==
    IF "Potential" \in h
    THEN [Resi : Names, Resi_Seq : Keys, Potential : PotTexts]
    ELSE [Resi : Names, Resi_Seq : Keys]

SeqsUpTo(S, n) == UNION {[1..k -> S] : k \in 0..n}

Inputs ==
    UNION {{[hdr |-> h, rows |-> rs] : rs \in SeqsUpTo(RowsOf(h), MaxRows)} : h \in Headers}

\* what a successful earlier call on rows (GLY,13,2),(ALA,12,-1) left behind
OldPotentials == AddPotential(AddPotential(<<>>, "13", 2), "12", 0 - 1)
OldNames == SetName(SetName(EmptyNames, "13", "GLY"), "12", "ALA")
OldCsv == CsvContent(OldPotentials, OldNames)
OldTxt == TabulatedContent(OldPotentials, OldNames)

Snapshot == [dir |-> cacheDir, csv |-> csvFile, txt |-> txtFile]

Init ==
    /\ input \in Inputs
    /\ fault \in Faults
    /\ \/ cacheDir = FALSE /\ csvFile = NoFile /\ txtFile = NoFile
       \/ cacheDir = TRUE /\ csvFile = OldCsv /\ txtFile = OldTxt
    /\ pc = "idle"
    /\ i = 1
    /\ resi_potentials = <<>>
    /\ resi_names = EmptyNames
    /\ destination_surface_resi_path = ""
    /\ err_surface_calc = FALSE
    /\ ret = <<"", FALSE>>
    /\ calls = 0
    /\ sasaCalls = 0
    /\ raisedAt = "none"
    /\ steps = <<>>
    /\ atCall = [dir |-> cacheDir, csv |-> csvFile, txt |-> txtFile]
    /\ hist = <<>>

env == <<input, fault>>
files == <<cacheDir, csvFile, txtFile>>
locals == <<i, resi_potentials, resi_names>>
result == <<destination_surface_resi_path, err_surface_calc>>
ghost == <<ret, calls, sasaCalls, atCall, hist>>

\* an exception leaves the try block for the except clause
Raise(step) ==
    /\ pc' = "except"
    /\ raisedAt' = step
    /\ UNCHANGED steps

Done(step, next) ==
    /\ pc' = next
    /\ steps' = Append(steps, step)
    /\ UNCHANGED raisedAt

\* entry: err_surface_calc = False, destination_surface_resi_path = ""
Call ==
    /\ pc = "idle"
    /\ calls < MaxCalls
    /\ calls' = calls + 1
    /\ err_surface_calc' = FALSE
    /\ destination_surface_resi_path' = ""
    /\ i' = 1
    /\ resi_potentials' = <<>>
    /\ resi_names' = EmptyNames
    /\ sasaCalls' = 0
    /\ raisedAt' = "none"
    /\ steps' = <<>>
    /\ atCall' = Snapshot
    /\ pc' = "makedirs"
    /\ UNCHANGED <<env, files, ret, hist>>

\* variant: os.makedirs without exist_ok
Makedirs_noExistOk ==
    /\ pc = "makedirs"
    /\ IF fault = "makedirs" \/ cacheDir
       THEN Raise("makedirs") /\ UNCHANGED cacheDir
       ELSE cacheDir' = TRUE /\ Done("makedirs", "open_input")
    /\ UNCHANGED <<env, csvFile, txtFile, locals, result, ghost>>

\* os.makedirs(bept_cache_dir, exist_ok=True)
Makedirs ==
    /\ pc = "makedirs"
    /\ IF fault = "makedirs"
       THEN Raise("makedirs") /\ UNCHANGED cacheDir
       ELSE cacheDir' = TRUE /\ Done("makedirs", "open_input")
    /\ UNCHANGED <<env, csvFile, txtFile, locals, result, ghost>>

\* variant: the output CSV is opened for writing before the input is read
OpenInput_truncates ==
    /\ pc = "open_input"
    /\ resi_potentials' = <<>>
    /\ resi_names' = EmptyNames
    /\ i' = 1
    /\ csvFile' = CsvContent(<<>>, EmptyNames)
    /\ IF fault = "open_input"
       THEN Raise("open_input")
       ELSE pc' = "read" /\ UNCHANGED <<raisedAt, steps>>
    /\ UNCHANGED <<env, cacheDir, txtFile, result, ghost>>

\* resi_potentials = defaultdict(float); resi_names = {}; open(csvpath, "r")
OpenInput ==
    /\ pc = "open_input"
    /\ resi_potentials' = <<>>
    /\ resi_names' = EmptyNames
    /\ i' = 1
    /\ IF fault = "open_input"
       THEN Raise("open_input")
       ELSE pc' = "read" /\ UNCHANGED <<raisedAt, steps>>
    /\ UNCHANGED <<env, files, result, ghost>>

\* one iteration of: for row in csvreader
ReadRow ==
    /\ pc = "read"
    /\ i <= Len(input.rows)
    /\ LET row == input.rows[i] IN
       IF RowRaises(row)
       THEN /\ Raise("read")
            /\ resi_potentials' =
                 IF /\ "Resi_Seq" \in DOMAIN row
                    /\ "Potential" \in DOMAIN row
                    /\ FloatOk(row.Potential)
                 THEN AddPotential(resi_potentials, row.Resi_Seq, float(row.Potential))
                 ELSE resi_potentials
            /\ UNCHANGED <<i, resi_names>>
       ELSE /\ resi_potentials' =
                 AddPotential(resi_potentials, row.Resi_Seq, float(row.Potential))
            /\ resi_names' = SetName(resi_names, row.Resi_Seq, row.Resi)
            /\ i' = i + 1
            /\ UNCHANGED <<pc, raisedAt, steps>>
    /\ UNCHANGED <<env, files, result, ghost>>

\* the reader is exhausted and the with block closes the input file
CloseInput ==
    /\ pc = "read"
    /\ i > Len(input.rows)
    /\ Done("read", "write_csv")
    /\ UNCHANGED <<env, files, locals, result, ghost>>

\* open(output_csv_file, "w"), header row, one row per item of resi_potentials
WriteCsv ==
    /\ pc = "write_csv"
    /\ IF fault = "open_csv" \/ ~cacheDir
       THEN Raise("write_csv") /\ UNCHANGED csvFile
       ELSE /\ csvFile' = CsvContent(resi_potentials, resi_names)
            /\ Done("write_csv", "write_txt")
    /\ UNCHANGED <<env, cacheDir, txtFile, locals, result, ghost>>

\* variant: a failure to write the text table is swallowed
WriteTxt_swallow ==
    /\ pc = "write_txt"
    /\ IF fault = "open_txt"
       THEN pc' = "success" /\ UNCHANGED <<txtFile, raisedAt, steps>>
       ELSE /\ txtFile' = TabulatedContent(resi_potentials, resi_names)
            /\ Done("write_txt", "success")
    /\ UNCHANGED <<env, cacheDir, csvFile, locals, result, ghost>>

\* table_data, open(output_tabulated_file, "w"), tabfile.write(tabulate(...))
WriteTxt ==
    /\ pc = "write_txt"
    /\ IF fault = "open_txt"
       THEN Raise("write_txt") /\ UNCHANGED txtFile
       ELSE /\ txtFile' = TabulatedContent(resi_potentials, resi_names)
            /\ Done("write_txt", "success")
    /\ UNCHANGED <<env, cacheDir, csvFile, locals, result, ghost>>

\* destination_surface_resi_path = output_tabulated_file; success message
Success ==
    /\ pc = "success"
    /\ destination_surface_resi_path' = output_tabulated_file
    /\ pc' = "calc_sasa"
    /\ UNCHANGED <<env, files, locals, err_surface_calc, ghost, raisedAt, steps>>

\* calc_sasa(protein_file): parses the structure and prints; its exceptions
\* propagate to the caller
CalcSasa ==
    /\ pc = "calc_sasa"
    /\ sasaCalls' = sasaCalls + 1
    /\ IF fault = "calc_sasa"
       THEN Raise("calc_sasa")
       ELSE Done("calc_sasa", "return")
    /\ UNCHANGED <<env, files, locals, result, ret, calls, atCall, hist>>

\* variant: the except clause removes the partial output
Handler_cleanup ==
    /\ pc = "except"
    /\ err_surface_calc' = TRUE
    /\ csvFile' = NoFile
    /\ pc' = "return"
    /\ UNCHANGED <<env, cacheDir, txtFile, locals, destination_surface_resi_path,
                   ghost, raisedAt, steps>>

\* except Exception as e: print; err_surface_calc = True
Handler ==
    /\ pc = "except"
    /\ err_surface_calc' = TRUE
    /\ pc' = "return"
    /\ UNCHANGED <<env, files, locals, destination_surface_resi_path, ghost,
                   raisedAt, steps>>

\* return destination_surface_resi_path, err_surface_calc
Return ==
    /\ pc = "return"
    /\ ret' = <<destination_surface_resi_path, err_surface_calc>>
    /\ hist' = Append(hist, [ret |-> ret', csv |-> csvFile, txt |-> txtFile,
                             dirBefore |-> atCall.dir])
    /\ pc' = "idle"
    /\ UNCHANGED <<env, files, locals, result, calls, sasaCalls, atCall,
                   raisedAt, steps>>

Next ==
    \/ Call
    \/ Makedirs
    \/ OpenInput
    \/ ReadRow
    \/ CloseInput
    \/ WriteCsv
    \/ WriteTxt
    \/ Success
    \/ CalcSasa
    \/ Handler
    \/ Return

Spec == Init /\ [][Next]_vars

\* ---- reference definitions the claims are stated with ----
Completed(step) == \E n \in 1..Len(steps) : steps[n] = step

Returned == pc = "idle" /\ calls > 0

RowsWithKey(rows, k) == {j \in 1..Len(rows) : rows[j].Resi_Seq = k}

InputKeys(rows) == {rows[j].Resi_Seq : j \in 1..Len(rows)}

RECURSIVE SumPotential(_, _)
SumPotential(rows, J) ==
    IF J = {} THEN 0
    ELSE LET j == CHOOSE x \in J : TRUE
         IN  float(rows[j].Potential) + SumPotential(rows, J \ {j})

FirstPos(rows, k) == CHOOSE j \in RowsWithKey(rows, k) : \A x \in RowsWithKey(rows, k) : j <= x

LastPos(rows, k) == CHOOSE j \in RowsWithKey(rows, k) : \A x \in RowsWithKey(rows, k) : j >= x

RECURSIVE SumColumn(_)
SumColumn(lines) ==
    IF lines = <<>> THEN 0 ELSE float(Head(lines)[3]) + SumColumn(Tail(lines))

WellFormed(inp) ==
    /\ inp.hdr = AllCols
    /\ \A j \in 1..Len(inp.rows) : FloatOk(inp.rows[j].Potential)

\* the report the spec describes: one line per distinct key, in order of first
\* occurrence, with the last name and the summed potential
IsReportOf(lines, rows) ==
    /\ Len(lines) = Cardinality(InputKeys(rows))
    /\ \A a \in 1..Len(lines) :
          /\ lines[a][2] \in InputKeys(rows)
          /\ lines[a][1] = rows[LastPos(rows, lines[a][2])].Resi
          /\ FloatOk(lines[a][3])
          /\ float(lines[a][3]) = SumPotential(rows, RowsWithKey(rows, lines[a][2]))
    /\ \A a, b \in 1..Len(lines) :
          a < b => FirstPos(rows, lines[a][2]) < FirstPos(rows, lines[b][2])

\* C1: every exception raised in steps 1-5 is caught and the call returns
\* ("", True); the error flag is True only if an exception was caught.
C1_FailureReturnsEmptyPath ==
    Returned =>
        /\ raisedAt # "none" => ret = <<"", TRUE>>
        /\ ret[2] => raisedAt # "none"

\* C2: for a well-formed input the Resi_Potential written for each key is the
\* sum of Potential over the input rows with that key, and the column total
\* equals the total of the input.
C2_PotentialConserved ==
    (Completed("write_csv") /\ WellFormed(input)) =>
        /\ \A a \in 1..Len(csvFile.rows) :
              /\ FloatOk(csvFile.rows[a][3])
              /\ float(csvFile.rows[a][3]) =
                    SumPotential(input.rows, RowsWithKey(input.rows, csvFile.rows[a][2]))
        /\ SumColumn(csvFile.rows) = SumPotential(input.rows, 1..Len(input.rows))

C2_Witness ==
    /\ Completed("write_csv")
    /\ Len(input.rows) = 3
    /\ Len(csvFile.rows) = 2
    /\ \E a \in 1..2 : csvFile.rows[a] = <<"ALA", "12", <<"-", "1", ".", "0">>>>
    /\ SumColumn(csvFile.rows) = 0

\* C3: the keys written are exactly the distinct Resi_Seq values of the input,
\* and every key of the aggregation mapping is on exactly one output row.
C3_KeysExactlyOnce ==
    Completed("write_csv") =>
        /\ {csvFile.rows[a][2] : a \in 1..Len(csvFile.rows)} = InputKeys(input.rows)
        /\ \A a, b \in 1..Len(csvFile.rows) :
              csvFile.rows[a][2] = csvFile.rows[b][2] => a = b
        /\ \A n \in 1..Len(resi_potentials) :
              Cardinality({a \in 1..Len(csvFile.rows) :
                              csvFile.rows[a][2] = resi_potentials[n][1]}) = 1

C3_Witness ==
    /\ Completed("write_csv")
    /\ Len(input.rows) = 3
    /\ input.rows[1].Resi_Seq = input.rows[3].Resi_Seq
    /\ input.rows[1].Resi_Seq # input.rows[2].Resi_Seq
    /\ Len(csvFile.rows) = 2

\* C4: the Resi written for a key, in both outputs, is the Resi of the last
\* input row with that key.
C4_LastNameWins ==
    /\ Completed("write_csv") =>
          \A a \in 1..Len(csvFile.rows) :
              csvFile.rows[a][1] =
                  input.rows[LastPos(input.rows, csvFile.rows[a][2])].Resi
    /\ Completed("write_txt") =>
          \A a \in 1..Len(txtFile.rows) :
              txtFile.rows[a][1] =
                  input.rows[LastPos(input.rows, txtFile.rows[a][2])].Resi

C4_Witness ==
    /\ Completed("write_txt")
    /\ Len(input.rows) = 3
    /\ input.rows[1].Resi_Seq = input.rows[3].Resi_Seq
    /\ input.rows[1].Resi = "ALA"
    /\ input.rows[3].Resi = "GLY"
    /\ \E a \in 1..Len(txtFile.rows) :
          txtFile.rows[a][1] = "GLY" /\ txtFile.rows[a][2] = input.rows[1].Resi_Seq

\* C5: the CSV rows are ordered by the first occurrence of their key in the
\* input, and the text table has the same rows in the same order.
C5_FirstEncounterOrder ==
    /\ Completed("write_csv") =>
          \A a, b \in 1..Len(csvFile.rows) :
              a < b => FirstPos(input.rows, csvFile.rows[a][2])
                          < FirstPos(input.rows, csvFile.rows[b][2])
    /\ Completed("write_txt") =>
          /\ Len(txtFile.rows) = Len(csvFile.rows)
          /\ \A a \in 1..Len(txtFile.rows) :
                /\ txtFile.rows[a][1] = csvFile.rows[a][1]
                /\ txtFile.rows[a][2] = csvFile.rows[a][2]
                /\ float(txtFile.rows[a][3]) = float(csvFile.rows[a][3])

C5_Witness ==
    /\ Completed("write_txt")
    /\ Len(input.rows) = 3
    /\ input.rows[1].Resi_Seq = "13"
    /\ input.rows[2].Resi_Seq = "12"
    /\ input.rows[3].Resi_Seq = "13"
    /\ csvFile.rows[1][2] = "13"
    /\ txtFile.rows[2][2] = "12"

\* C6: an input whose header lacks the Potential column makes the call return
\* ("", True), whatever its number of data rows (stated where the environment
\* raises nothing by itself).
C6_MissingColumnIsError ==
    (Returned /\ fault = "none" /\ "Potential" \notin input.hdr) =>
        ret = <<"", TRUE>>

\* C7: a failure after the CSV is written and before the text table is written
\* leaves the CSV of this call on disk in full, touches no other file, and the
\* call returns ("", True).
C7_NoCleanup ==
    raisedAt = "write_txt" =>
        /\ csvFile.exists
        /\ IsReportOf(csvFile.rows, input.rows)
        /\ txtFile = atCall.txt
        /\ cacheDir
        /\ Returned => ret = <<"", TRUE>>

C7_Witness ==
    /\ Returned
    /\ raisedAt = "write_txt"
    /\ Len(csvFile.rows) = 2
    /\ csvFile # atCall.csv
    /\ ret = <<"", TRUE>>

\* C8: a second call under identical conditions leaves both output files as
\* the first call left them and returns the same pair; an existing cache
\* directory is not an error.
C8_Idempotent ==
    \A n \in 2..Len(hist) :
        /\ hist[n].ret = hist[n - 1].ret
        /\ hist[n].csv = hist[n - 1].csv
        /\ hist[n].txt = hist[n - 1].txt

C8_Witness ==
    /\ Len(hist) = 2
    /\ ~hist[1].dirBefore
    /\ hist[2].dirBefore
    /\ hist[2].ret = <<output_tabulated_file, FALSE>>
    /\ Len(hist[2].csv.rows) = 2
    /\ hist[2].txt.exists

\* C9: calc_sasa is invoked at most once per call, only after the cache
\* directory exists, the input is fully read and both files are written, in
\* that order, and never when an earlier step raised.
C9_SasaLastAndOnce ==
    /\ sasaCalls <= 1
    /\ sasaCalls = 1 =>
          /\ Len(steps) >= 4
          /\ SubSeq(steps, 1, 4) = <<"makedirs", "read", "write_csv", "write_txt">>
          /\ raisedAt \in {"none", "calc_sasa"}
          /\ cacheDir
          /\ i > Len(input.rows)
          /\ csvFile.exists /\ IsReportOf(csvFile.rows, input.rows)
          /\ txtFile.exists /\ IsReportOf(txtFile.rows, input.rows)

C9_Witness ==
    /\ sasaCalls = 1
    /\ Returned
    /\ Len(input.rows) = 3
    /\ steps = <<"makedirs", "read", "write_csv", "write_txt", "calc_sasa">>

\* C10: a call that fails while reading the input creates or modifies neither
\* output file; files of an earlier successful call keep their content.
C10_ReadFailureWritesNothing ==
    raisedAt \in {"open_input", "read"} =>
        /\ csvFile = atCall.csv
        /\ txtFile = atCall.txt

C10_Witness ==
    /\ Returned
    /\ raisedAt = "read"
    /\ Len(input.rows) = 3
    /\ i = 3
    /\ "Potential" \in input.hdr
    /\ atCall.csv = OldCsv
    /\ csvFile = OldCsv
    /\ txtFile = OldTxt

====
